---------------------------- MODULE Spec2Model ----------------------------
(***************************************************************************)
(* Model of social-listening-reddit-python-nltk.py: the main run           *)
(* (authenticate, search submissions, fetch each submission's comments,    *)
(* export CSV, analyze_comments, visualize_results,                        *)
(* generate_final_summary).                                                *)
(*                                                                         *)
(* Strings are sequences of one-character strings, so that split(),        *)
(* isalpha(), lower() and the substring test `in` are computed and not     *)
(* assumed.  A Python dict with optional keys is a function whose DOMAIN   *)
(* is the set of keys present.  Compound scores are integers in units of   *)
(* 0.0001 (VADER rounds the compound score to four decimals).              *)
(***************************************************************************)
EXTENDS Integers, Sequences, FiniteSets, TLC

\* ------------------------------------------------------------------ bounds
MaxSubmissions == 2
MaxComments == 2
MaxRank == 21
MaxSeed == 2

\* ------------------------------------------------------- program constants
TopN == 10
PosThreshold == 500
NegThreshold == -500

UpperCase ==
  <<"A", "B", "C", "D", "E", "F", "G", "H", "I", "J", "K", "L", "M",
    "N", "O", "P", "Q", "R", "S", "T", "U", "V", "W", "X", "Y", "Z">>
LowerCase ==
  <<"a", "b", "c", "d", "e", "f", "g", "h", "i", "j", "k", "l", "m",
    "n", "o", "p", "q", "r", "s", "t", "u", "v", "w", "x", "y", "z">>
Whitespace == {" "}

Range(s) == {s[i] : i \in DOMAIN s}
Min(a, b) == IF a < b THEN a ELSE b
Max(a, b) == IF a > b THEN a ELSE b

BRANDS ==
  << <<"h", "u", "n", "t", "e", "r">>,
     <<"h", "a", "m", "p", "t", "o", "n", " ", "b", "a", "y">>,
     <<"w", "e", "s", "t", "i", "n", "g", "h", "o", "u", "s", "e">>,
     <<"b", "u", "n", "n", "i", "n", "g", "s">>,
     <<"b", "i", "g", " ", "a", "s", "s", " ", "f", "a", "n", "s">>,
     <<"m", "i", "n", "k", "a">> >>

topics ==
  << <<"p", "r", "i", "c", "e">>,
     <<"i", "n", "s", "t", "a", "l", "l", "a", "t", "i", "o", "n">>,
     <<"w", "i", "r", "i", "n", "g">>,
     <<"b", "r", "a", "n", "d", "s">>,
     <<"l", "i", "k", "e", "s">>,
     <<"d", "i", "s", "l", "i", "k", "e", "s">>,
     <<"q", "u", "a", "l", "i", "t", "y">>,
     <<"d", "e", "s", "i", "g", "n">>,
     <<"n", "o", "i", "s", "e">>,
     <<"b", "l", "a", "d", "e", "s">>,
     <<"r", "e", "m", "o", "t", "e">>,
     <<"c", "o", "s", "t">>,
     <<"l", "i", "g", "h", "t">>,
     <<"c", "h", "e", "a", "p">>,
     <<"e", "x", "p", "e", "n", "s", "i", "v", "e">>,
     <<"e", "f", "f", "i", "c", "i", "e", "n", "c", "y">>,
     <<"m", "a", "i", "n", "t", "e", "n", "a", "n", "c", "e">>,
     <<"a", "i", "r", "f", "l", "o", "w">> >>

\* A few entries of NLTK's English stop-word list (all lower case).
stop_words ==
  { <<"t", "h", "e">>, <<"i", "t">>, <<"i", "s">>, <<"a">>, <<"a", "n", "d">> }

\* --------------------------------------------------- str methods (Python)
\* str.lower(), one character
LowerChar(c) ==
  IF \E i \in DOMAIN UpperCase : UpperCase[i] = c
    THEN LowerCase[CHOOSE i \in DOMAIN UpperCase : UpperCase[i] = c]
    ELSE c

\* str.lower()
lower(s) == [i \in DOMAIN s |-> LowerChar(s[i])]

\* str.isalpha(): non-empty and every character a letter
isalpha(w) ==
  /\ Len(w) > 0
  /\ \A i \in DOMAIN w : w[i] \in Range(UpperCase) \cup Range(LowerCase)

\* str.split() with no argument: the maximal runs of non-whitespace
RECURSIVE SplitFrom(_, _, _, _)
SplitFrom(s, i, cur, acc) ==
  IF i > Len(s)
    THEN IF cur = <<>> THEN acc ELSE Append(acc, cur)
    ELSE IF s[i] \in Whitespace
           THEN SplitFrom(s, i + 1, <<>>, IF cur = <<>> THEN acc ELSE Append(acc, cur))
           ELSE SplitFrom(s, i + 1, Append(cur, s[i]), acc)

split(s) == SplitFrom(s, 1, <<>>, <<>>)

\* `kw in s` on strings: kw occurs in s as a substring
Contains(kw, s) ==
  \E i \in 1..(Len(s) - Len(kw) + 1) :
     \A j \in 1..Len(kw) : s[i + j - 1] = kw[j]

RECURSIVE SelectWords(_)
SelectWords(ws) ==
  IF ws = <<>> THEN <<>>
  ELSE LET w == Head(ws)
       IN  (IF isalpha(w) /\ lower(w) \notin stop_words THEN <<lower(w)>> ELSE <<>>)
             \o SelectWords(Tail(ws))

\* line 132: [word.lower() for word in body.split()
\*            if word.isalpha() and word.lower() not in stop_words]
Words(body) == SelectWords(split(body))

\* ------------------------------------------------------------ input data
Subreddits == {"fans", "diy"}

BodyHunter == <<"T", "h", "e", " ", "H", "u", "n", "t", "e", "r">>
BodyNoise == <<"n", "o", "i", "s", "e", ",", " ", "N", "o", "i", "s", "e">>
BodyFive == <<"t", "h", "e", " ", "5">>
BodyDislikes == <<"d", "i", "s", "l", "i", "k", "e", "s", " ", "i", "t">>
BodyEmpty == <<>>

\* The `data` objects a comment listing may hold.  A comment has body and
\* permalink and usually an author; the "more" stub that ends a listing has
\* none of them.  The permalink is filled in by Listings.
CommentData ==
  { [author |-> "amy", body |-> BodyHunter, permalink |-> 0],
    [author |-> "bob", body |-> BodyNoise, permalink |-> 0],
    [body |-> BodyFive, permalink |-> 0],
    [author |-> "amy", body |-> BodyDislikes, permalink |-> 0],
    [author |-> "bob", body |-> BodyEmpty, permalink |-> 0],
    [count |-> 1] }

WithPermalink(d, k) ==
  IF "permalink" \in DOMAIN d THEN [d EXCEPT !.permalink = k] ELSE d

\* The children of a comments response: up to maxlen comment objects; the
\* permalinks are distinct, numbered on from k0.
Listings(k0, maxlen) ==
  UNION { { [i \in 1..n |-> [data |-> WithPermalink(ds[i], k0 + i)]] :
              ds \in [1..n -> CommentData] } : n \in 0..maxlen }

\* The children of a search response.
SubmissionLists ==
  UNION { { [i \in 1..n |-> [data |-> [subreddit |-> subs[i], id |-> i]]] :
              subs \in [1..n -> Subreddits] } : n \in 0..MaxSubmissions }

\* line 120: vader.polarity_scores(body)["compound"].  The lexicon is not
\* part of the program; the table gives each sample body one compound score,
\* on both sides of each threshold and on the thresholds themselves.
polarity_scores(body) ==
  CASE body = BodyHunter -> 501
    [] body = BodyNoise -> -501
    [] body = BodyFive -> 500
    [] body = BodyDislikes -> -500
    [] OTHER -> 0

\* ------------------------------------------------- fetch_ceiling_fan_comments
\* ExtendComments with the dataset reset when a comment request fails
ExtendOrReset(all, status_code, children, subreddit) ==
  IF status_code = 200
    THEN all \o [i \in DOMAIN children |->
                   [data |-> children[i].data, subreddit |-> subreddit]]
    ELSE <<>>

\* lines 68-72: a 200 response's children, each tagged with the submission's
\* subreddit, are appended; any other status leaves all_comments as it is
ExtendComments(all, status_code, children, subreddit) ==
  IF status_code = 200
    THEN all \o [i \in DOMAIN children |->
                   [data |-> children[i].data, subreddit |-> subreddit]]
    ELSE all

\* CommentLevelCounts with the counts recalculated from the comments alone
CommentLevelOnly(counts, all) ==
  [s \in Subreddits |->
     Cardinality({i \in DOMAIN all :
                    /\ "subreddit" \in DOMAIN all[i]
                    /\ all[i].subreddit = s})]

\* lines 75-77: one more increment per fetched comment carrying a subreddit
CommentLevelCounts(counts, all) ==
  [s \in Subreddits |->
     counts[s] + Cardinality({i \in DOMAIN all :
                                /\ "subreddit" \in DOMAIN all[i]
                                /\ all[i].subreddit = s})]

\* ---------------------------------------------------- save_comments_to_csv
\* dict.get(key, default)
Get(d, key, default) == IF key \in DOMAIN d THEN d[key] ELSE default

\* lines 88-93: the row written for one comment
CsvRow(comment) ==
  << Get(comment.data, "author", "N/A"),
     Get(comment.data, "body", "N/A"),
     Get(comment, "subreddit", "N/A"),
     <<"https://reddit.com", Get(comment.data, "permalink", "")>> >>

RECURSIVE CsvRows(_)
\* lines 86-93: one row per comment whose data has a body, in order
CsvRows(comments) ==
  IF comments = <<>> THEN <<>>
  ELSE (IF "body" \in DOMAIN Head(comments).data
          THEN <<CsvRow(Head(comments))>> ELSE <<>>)
         \o CsvRows(Tail(comments))

\* -------------------------------------------------------- analyze_comments
\* Bucket with the thresholds themselves taken as positive and negative
BucketInclusive(sentiment) ==
  IF sentiment >= PosThreshold THEN "positive"
  ELSE IF sentiment <= NegThreshold THEN "negative"
  ELSE "neutral"

\* lines 123-130: the bucket of a compound score
Bucket(sentiment) ==
  IF sentiment > PosThreshold THEN "positive"
  ELSE IF sentiment < NegThreshold THEN "negative"
  ELSE "neutral"

\* CountSentiment without the final else branch
CountPolarOnly(sd, sentiment) ==
  IF sentiment > PosThreshold THEN [sd EXCEPT !["positive"] = @ + 1]
  ELSE IF sentiment < NegThreshold THEN [sd EXCEPT !["negative"] = @ + 1]
  ELSE sd

\* lines 124, 127, 130: sentiment_data[bucket] += 1
CountSentiment(sd, sentiment) ==
  [sd EXCEPT ![Bucket(sentiment)] = @ + 1]

\* lines 125, 128: the tokens a body adds to positive_words (bucket
\* "positive") or negative_words (bucket "negative"): body.split()
BucketWords(ws, bucket, sentiment, body) ==
  IF Bucket(sentiment) = bucket THEN ws \o split(body) ELSE ws

\* CountKeywords counting every occurrence of a keyword in the body
CountOccurrences(counts, body) ==
  LET lowered == lower(body)
  IN  [k \in DOMAIN counts |->
         counts[k] + Cardinality({i \in 1..(Len(lowered) - Len(k) + 1) :
                                    SubSeq(lowered, i, i + Len(k) - 1) = k})]

\* lines 135-137 and 140-142: counts[k] += 1 for each keyword k in body.lower()
CountKeywords(counts, body) ==
  LET lowered == lower(body)
  IN  [k \in DOMAIN counts |->
         IF Contains(k, lowered) THEN counts[k] + 1 ELSE counts[k]]

\* line 138: topic_comments[topic].append(body)
GroupByTopic(tc, body) ==
  LET lowered == lower(body)
  IN  [k \in DOMAIN tc |->
         IF Contains(k, lowered) THEN Append(tc[k], body) ELSE tc[k]]

\* list.sort(key=lambda x: x[0], reverse=True) is stable: x goes after every
\* entry whose score is at least its own
RECURSIVE InsertDesc(_, _)
InsertDesc(sorted, x) ==
  IF sorted = <<>> THEN <<x>>
  ELSE IF Head(sorted)[1] >= x[1]
         THEN <<Head(sorted)>> \o InsertDesc(Tail(sorted), x)
         ELSE <<x>> \o sorted

RECURSIVE SortDesc(_)
\* line 145
SortDesc(s) ==
  IF s = <<>> THEN <<>>
  ELSE InsertDesc(SortDesc(SubSeq(s, 1, Len(s) - 1)), s[Len(s)])

\* line 146: scored_comments[:10]
MostPositive(sorted) == SubSeq(sorted, 1, Min(TopN, Len(sorted)))

\* MostNegative as scored_comments[10:]
MostNegativeFromTenth(sorted) == SubSeq(sorted, TopN + 1, Len(sorted))

\* line 147: scored_comments[-10:]
MostNegative(sorted) == SubSeq(sorted, Max(1, Len(sorted) - TopN + 1), Len(sorted))

\* ------------------------------------------------------------------ state
VARIABLES
  pc,                 \* where the main run is
  error,              \* the unhandled exception that ended the run, or "none"
  submissions,        \* line 57: the children of the search response
  si,                 \* lines 61-72: submissions handled so far
  comments_responses, \* line 67: the response got for each handled submission
  all_comments,       \* line 58
  subreddit_counts,   \* line 59
  printed_fetched,    \* line 259: the number printed, 0 before
  csv_rows,           \* the rows of fetched_comments.csv after the header
  ci,                 \* lines 116-142: comments handled so far
  sentiment_data, topic_counts, brand_counts, topic_comments,
  all_words, positive_words, negative_words, scored_comments,
  most_positive, most_negative,
  summary             \* lines 232-251: what the final summary printed

vars ==
  << pc, error, submissions, si, comments_responses, all_comments,
     subreddit_counts, printed_fetched, csv_rows, ci, sentiment_data,
     topic_counts, brand_counts, topic_comments, all_words, positive_words,
     negative_words, scored_comments, most_positive, most_negative, summary >>

fetchVars ==
  << submissions, si, comments_responses, all_comments, subreddit_counts,
     printed_fetched >>

analysisVars ==
  << ci, sentiment_data, topic_counts, brand_counts, topic_comments,
     all_words, positive_words, negative_words, scored_comments,
     most_positive, most_negative >>

\* lines 101-108: the values analyze_comments starts from
AnalysisInit ==
  /\ ci = 0
  /\ sentiment_data = [positive |-> 0, neutral |-> 0, negative |-> 0]
  /\ topic_counts = [t \in Range(topics) |-> 0]
  /\ brand_counts = [b \in Range(BRANDS) |-> 0]
  /\ topic_comments = [t \in Range(topics) |-> <<>>]
  /\ all_words = <<>>
  /\ positive_words = <<>>
  /\ negative_words = <<>>
  /\ scored_comments = <<>>
  /\ most_positive = <<>>
  /\ most_negative = <<>>

Init ==
  /\ pc = "auth"
  /\ error = "none"
  /\ submissions = <<>>
  /\ si = 0
  /\ comments_responses = <<>>
  /\ all_comments = <<>>
  /\ subreddit_counts = [s \in Subreddits |-> 0]
  /\ printed_fetched = 0
  /\ csv_rows = <<>>
  /\ AnalysisInit
  /\ summary = <<>>

\* ---------------------------------------------------------------- actions
StatusCodes == {200, 403}

\* lines 29-46 and 255-256: a token, or None and the run ends
GetOAuthToken ==
  /\ pc = "auth"
  /\ \E status_code \in StatusCodes :
       pc' = IF status_code = 200 THEN "search" ELSE "exit_noauth"
  /\ UNCHANGED << error, fetchVars, csv_rows, analysisVars, summary >>

\* lines 50-59; (None, None) makes line 258 end the run
SearchSubmissions ==
  /\ pc = "search"
  /\ \E status_code \in StatusCodes :
       IF status_code # 200
         THEN /\ pc' = "exit_nosubmissions"
              /\ UNCHANGED submissions
         ELSE /\ pc' = "fetch"
              /\ submissions' \in SubmissionLists
  /\ UNCHANGED << error, si, comments_responses, all_comments,
                  subreddit_counts, printed_fetched, csv_rows, analysisVars,
                  summary >>

\* lines 61-72, one iteration.  No more than MaxComments comments are
\* fetched in all.
FetchSubmissionComments ==
  /\ pc = "fetch"
  /\ si < Len(submissions)
  /\ LET submission == submissions[si + 1]
         subreddit == submission.data.subreddit
     IN  /\ subreddit_counts' = [subreddit_counts EXCEPT ![subreddit] = @ + 1]
         /\ \E status_code \in StatusCodes :
              \E children \in
                   IF status_code = 200
                     THEN Listings(Len(all_comments), MaxComments - Len(all_comments))
                     ELSE {<<>>} :
                /\ comments_responses' =
                     Append(comments_responses,
                            [status_code |-> status_code, children |-> children])
                /\ all_comments' =
                     ExtendComments(all_comments, status_code, children, subreddit)
  /\ si' = si + 1
  /\ UNCHANGED << pc, error, submissions, printed_fetched, csv_rows,
                  analysisVars, summary >>

\* lines 74-79 and 257-259
ReturnComments ==
  /\ pc = "fetch"
  /\ si = Len(submissions)
  /\ subreddit_counts' = CommentLevelCounts(subreddit_counts, all_comments)
  /\ IF all_comments # <<>>
       THEN /\ printed_fetched' = Len(all_comments)
            /\ pc' = "save_csv"
       ELSE /\ UNCHANGED printed_fetched
            /\ pc' = "exit_nocomments"
  /\ UNCHANGED << error, submissions, si, comments_responses, all_comments,
                  csv_rows, analysisVars, summary >>

\* lines 82-94 and 262
SaveCommentsToCsv ==
  /\ pc = "save_csv"
  /\ csv_rows' = CsvRows(all_comments)
  /\ pc' = "analyze"
  /\ UNCHANGED << error, fetchVars, analysisVars, summary >>

\* lines 116-142, one iteration
AnalyzeComment ==
  /\ pc = "analyze"
  /\ ci < Len(all_comments)
  /\ LET comment == all_comments[ci + 1] IN
       IF "body" \in DOMAIN comment.data
         THEN LET body == comment.data.body
                  permalink == <<"https://reddit.com", comment.data.permalink>>
                  sentiment == polarity_scores(body)
              IN  /\ scored_comments' =
                       Append(scored_comments, <<sentiment, body, permalink>>)
                  /\ sentiment_data' = CountSentiment(sentiment_data, sentiment)
                  /\ positive_words' =
                       BucketWords(positive_words, "positive", sentiment, body)
                  /\ negative_words' =
                       BucketWords(negative_words, "negative", sentiment, body)
                  /\ all_words' = all_words \o Words(body)
                  /\ topic_counts' = CountKeywords(topic_counts, body)
                  /\ topic_comments' = GroupByTopic(topic_comments, body)
                  /\ brand_counts' = CountKeywords(brand_counts, body)
         ELSE UNCHANGED << scored_comments, sentiment_data, positive_words,
                           negative_words, all_words, topic_counts,
                           topic_comments, brand_counts >>
  /\ ci' = ci + 1
  /\ UNCHANGED << pc, error, fetchVars, csv_rows, most_positive,
                  most_negative, summary >>

\* lines 144-149; print_comments_grouped_by_topic (line 265) only prints
RankComments ==
  /\ pc = "analyze"
  /\ ci = Len(all_comments)
  /\ scored_comments' = SortDesc(scored_comments)
  /\ most_positive' = MostPositive(scored_comments')
  /\ most_negative' = MostNegative(scored_comments')
  /\ pc' = "visualize"
  /\ UNCHANGED << error, fetchVars, csv_rows, ci, sentiment_data,
                  topic_counts, brand_counts, topic_comments, all_words,
                  positive_words, negative_words, summary >>

\* len(counter): the keys that were ever incremented
Keys(counts) == {k \in DOMAIN counts : counts[k] > 0}

\* lines 160-225: the first statement of visualize_results that raises, if
\* any.  WordCloud.generate raises ValueError when given no word;
\* `a, b = zip(*pairs)` raises ValueError when pairs is empty (line 200
\* would raise on empty all_words too, but line 173 has raised by then).
VisualizeError(aw, pw, nw, sc, bc) ==
  IF aw = <<>> THEN "ValueError:173"
  ELSE IF pw = <<>> THEN "ValueError:182"
  ELSE IF nw = <<>> THEN "ValueError:183"
  ELSE IF Keys(sc) = {} THEN "ValueError:209"
  ELSE IF Keys(bc) = {} THEN "ValueError:219"
  ELSE "none"

\* line 266
VisualizeResults ==
  /\ pc = "visualize"
  /\ error' = VisualizeError(all_words, positive_words, negative_words,
                             subreddit_counts, brand_counts)
  /\ pc' = IF error' = "none" THEN "summary" ELSE "error"
  /\ UNCHANGED << fetchVars, csv_rows, analysisVars, summary >>

Authors == {"amy", "bob"}

\* line 229: Counter of the authors of the comments that have one
UserActivity(comments) ==
  [a \in Authors |->
     Cardinality({i \in DOMAIN comments :
                    /\ "author" \in DOMAIN comments[i].data
                    /\ comments[i].data.author = a})]

\* lines 232-251: what the summary reports (the top-5 listings of brands,
\* topics and users are selections from the counts given here)
Summary(comments, sc, bc, tc, mp, mn) ==
  [ total_comments |-> Len(comments),
    total_subreddits |-> Cardinality(Keys(sc)),
    brand_counts |-> bc,
    topic_counts |-> tc,
    user_activity |-> UserActivity(comments),
    top_positive |-> mp[1],
    top_negative |-> mn[1] ]

\* lines 228-251 and 267
GenerateFinalSummary ==
  /\ pc = "summary"
  /\ IF most_positive = <<>> \/ most_negative = <<>>
       THEN /\ error' = "IndexError:246"
            /\ pc' = "error"
            /\ UNCHANGED summary
       ELSE /\ summary' = << Summary(all_comments, subreddit_counts,
                                     brand_counts, topic_counts,
                                     most_positive, most_negative) >>
            /\ pc' = "done"
            /\ UNCHANGED error
  /\ UNCHANGED << fetchVars, csv_rows, analysisVars >>

Next ==
  \/ GetOAuthToken
  \/ SearchSubmissions
  \/ FetchSubmissionComments
  \/ ReturnComments
  \/ SaveCommentsToCsv
  \/ AnalyzeComment
  \/ RankComments
  \/ VisualizeResults
  \/ GenerateFinalSummary

Spec == Init /\ [][Next]_vars

\* ------------------------------------------------ analysis of long listings
\* analyze_comments, visualize_results and generate_final_summary on the
\* comments of one submission whose listing has up to MaxRank entries (a
\* listing holds up to 100): the entries repeat a pattern of up to MaxSeed
\* data objects.
RankListings ==
  UNION { UNION { { [i \in 1..n |->
                       [data |-> WithPermalink(seed[((i - 1) % m) + 1], i)]] :
                    seed \in [1..m -> CommentData] } :
                  m \in 1..MaxSeed } :
          n \in 1..MaxRank }

InitRank ==
  \E children \in RankListings :
    /\ pc = "analyze"
    /\ error = "none"
    /\ submissions = << [data |-> [subreddit |-> "fans", id |-> 1]] >>
    /\ si = 1
    /\ comments_responses = << [status_code |-> 200, children |-> children] >>
    /\ all_comments = ExtendComments(<<>>, 200, children, "fans")
    /\ subreddit_counts =
         CommentLevelCounts([s \in Subreddits |-> IF s = "fans" THEN 1 ELSE 0],
                            all_comments)
    /\ printed_fetched = Len(all_comments)
    /\ csv_rows = CsvRows(all_comments)
    /\ AnalysisInit
    /\ summary = <<>>

NextRank ==
  \/ AnalyzeComment
  \/ RankComments
  \/ VisualizeResults
  \/ GenerateFinalSummary

SpecRank == InitRank /\ [][NextRank]_vars

\* ----------------------------------------------------------------- claims
HasBody(c) == "body" \in DOMAIN c.data

\* the comments analyze_comments has handled so far
Handled == 1..ci

SentimentTotal ==
  sentiment_data["positive"] + sentiment_data["neutral"] + sentiment_data["negative"]

\* the offsets at which kw occurs in s
Occurrences(kw, s) ==
  {i \in 1..(Len(s) - Len(kw) + 1) : SubSeq(s, i, i + Len(kw) - 1) = kw}

Ranked == pc \in {"visualize", "summary", "done", "error"}

Fetched == Ranked \/ pc \in {"save_csv", "analyze", "exit_nocomments"}

noise == <<"n", "o", "i", "s", "e">>
hunter == <<"h", "u", "n", "t", "e", "r">>

C2_OneBucketByScore ==
  [][ (pc = "analyze" /\ ci' = ci + 1 /\ HasBody(all_comments[ci'])) =>
        LET score == scored_comments'[Len(scored_comments')][1]
            bucket == IF score > PosThreshold THEN "positive"
                      ELSE IF score < NegThreshold THEN "negative"
                      ELSE "neutral"
        IN  /\ Len(scored_comments') = Len(scored_comments) + 1
            /\ \A b \in {"positive", "neutral", "negative"} :
                 sentiment_data'[b] =
                   sentiment_data[b] + (IF b = bucket THEN 1 ELSE 0) ]_vars

\* C2 witness: a body scored exactly 0.05 and a body scored exactly -0.05
\* were handled and both went to neutral.
C2_Witness ==
  /\ \E i \in DOMAIN scored_comments : scored_comments[i][1] = PosThreshold
  /\ \E i \in DOMAIN scored_comments : scored_comments[i][1] = NegThreshold
  /\ sentiment_data = [positive |-> 0, neutral |-> 2, negative |-> 0]

\* the records that analyze_comments scores, by position in its input
BodyIds == {i \in DOMAIN all_comments : HasBody(all_comments[i])}

ScoreOf(i) == polarity_scores(all_comments[i].data.body)

\* the position in the input of a scored comment (its permalink)
EntryId(entry) == entry[3][2]

EntryIds(entries) == {EntryId(entries[j]) : j \in DOMAIN entries}

\* C3: of the n scored comments, most_positive is in descending score order
\* and most_negative holds the min(10, n) lowest-scoring ones; with n below
\* 10 both lists hold all n; with n above 20 the two lists share no comment.
C3_Ranking ==
  Ranked =>
    LET n == Cardinality(BodyIds)
        k == Min(TopN, n)
        neg == EntryIds(most_negative)
        pos == EntryIds(most_positive)
    IN  /\ \A j \in 1..(Len(most_positive) - 1) :
             most_positive[j][1] >= most_positive[j + 1][1]
        /\ \A j \in DOMAIN most_positive :
             most_positive[j][1] = ScoreOf(EntryId(most_positive[j]))
        /\ \A j \in DOMAIN most_negative :
             most_negative[j][1] = ScoreOf(EntryId(most_negative[j]))
        /\ Len(most_negative) = k
        /\ Cardinality(neg) = k
        /\ neg \subseteq BodyIds
        /\ \A i \in BodyIds \ neg : \A j \in neg : ScoreOf(i) >= ScoreOf(j)
        /\ (n < TopN => /\ Len(most_positive) = n
                        /\ pos = BodyIds
                        /\ neg = BodyIds)
        /\ (n > 2 * TopN => pos \cap neg = {})

\* C3 witness: more than 20 comments, not all of one score, were ranked.
C3_Witness ==
  /\ Ranked
  /\ Cardinality(BodyIds) > 2 * TopN
  /\ Cardinality({ScoreOf(i) : i \in BodyIds}) >= 2
  /\ Len(most_positive) = TopN
  /\ Len(most_negative) = TopN

\* the fetched records that have a body: the dataset as it would be had the
\* records without one not been fetched
RECURSIVE WithBody(_)
WithBody(comments) ==
  IF comments = <<>> THEN <<>>
  ELSE (IF HasBody(Head(comments)) THEN <<Head(comments)>> ELSE <<>>)
         \o WithBody(Tail(comments))

\* C4: a record without a body is in no output of the run: the CSV rows, the
\* scored comments, the subreddit counts, the number of comments printed and
\* the summary's totals and user activity are those of the dataset without
\* it.
C4_BodylessRecordInNoOutput ==
  LET kept == WithBody(all_comments) IN
    /\ (Ranked \/ pc = "analyze") => csv_rows = CsvRows(kept)
    /\ Ranked => Len(scored_comments) = Len(kept)
    /\ Fetched =>
         \A s \in Subreddits :
           subreddit_counts[s] =
             Cardinality({i \in DOMAIN submissions :
                            submissions[i].data.subreddit = s})
             + Cardinality({i \in DOMAIN kept : kept[i].subreddit = s})
    /\ Fetched => printed_fetched = Len(kept)
    /\ pc = "done" =>
         /\ summary[1].total_comments = Len(kept)
         /\ summary[1].user_activity = UserActivity(kept)

\* C5: in the analyze_comments pass no topic count and no brand count ever
\* decreases, and when the pass has ended each equals the number of records
\* with a body whose lower-cased body contains the keyword, a record counting
\* once however often the keyword occurs in it; topic_comments[t] has
\* topic_counts[t] entries.
C5_KeywordCounts ==
  /\ [] ( pc = "visualize" =>
            /\ \A t \in Range(topics) :
                 /\ topic_counts[t] =
                      Cardinality({i \in BodyIds :
                        Occurrences(t, lower(all_comments[i].data.body)) # {}})
                 /\ topic_counts[t] = Len(topic_comments[t])
            /\ \A b \in Range(BRANDS) :
                 brand_counts[b] =
                   Cardinality({i \in BodyIds :
                     Occurrences(b, lower(all_comments[i].data.body)) # {}}) )
  /\ [][ /\ \A t \in Range(topics) : topic_counts'[t] >= topic_counts[t]
         /\ \A b \in Range(BRANDS) : brand_counts'[b] >= brand_counts[b] ]_vars

\* C5 witness: the pass is over one body in which "noise" occurs twice, and
\* one that names the brand "hunter"; each was counted once.
C5_Witness ==
  /\ Ranked
  /\ \E i \in BodyIds :
       Cardinality(Occurrences(noise, lower(all_comments[i].data.body))) = 2
  /\ topic_counts[noise] = 1
  /\ brand_counts[hunter] = 1

\* the comments the first k comment requests returned with status 200, in
\* request order, each tagged with its submission's subreddit
RECURSIVE Retrieved(_)
Retrieved(k) ==
  IF k = 0 THEN <<>>
  ELSE Retrieved(k - 1) \o
         (IF comments_responses[k].status_code = 200
            THEN [i \in DOMAIN comments_responses[k].children |->
                    [data |-> comments_responses[k].children[i].data,
                     subreddit |-> submissions[k].data.subreddit]]
            ELSE <<>>)

C7_FailedFetchSkipsOneSubmission ==
  /\ (Fetched \/ pc = "fetch") => all_comments = Retrieved(si)
  /\ Fetched => si = Len(submissions)
  /\ (Fetched /\ Retrieved(si) # <<>>) => pc # "exit_nocomments"

\* C7 witness: the first comment request failed, the second succeeded, and
\* the analysis has handled a comment of the second.
C7_Witness ==
  /\ pc = "analyze"
  /\ ci >= 1
  /\ Len(comments_responses) = 2
  /\ comments_responses[1].status_code # 200
  /\ comments_responses[2].status_code = 200
  /\ all_comments # <<>>

\* how often w is in ws
CountIn(w, ws) == Cardinality({i \in DOMAIN ws : ws[i] = w})

\* the tokens line 132 keeps: alphabetic, lower case, no stop word
Normalized(w) == isalpha(w) /\ lower(w) = w /\ w \notin stop_words

\* C8: positive_words and negative_words hold normalized tokens only, each
\* no more often than all_words holds it.
C8_BucketWordsAreNormalized ==
  /\ \A i \in DOMAIN positive_words :
       /\ Normalized(positive_words[i])
       /\ CountIn(positive_words[i], positive_words)
            <= CountIn(positive_words[i], all_words)
  /\ \A i \in DOMAIN negative_words :
       /\ Normalized(negative_words[i])
       /\ CountIn(negative_words[i], negative_words)
            <= CountIn(negative_words[i], all_words)

\* C9: the summary's top positive example has the highest score of all
\* scored comments and its top negative example the lowest.
C9_SummaryShowsExtremes ==
  pc = "done" =>
    /\ \A i \in BodyIds : summary[1].top_positive[1] >= ScoreOf(i)
    /\ \A i \in BodyIds : summary[1].top_negative[1] <= ScoreOf(i)

\* C10: a run that fetched at least one comment record does not end in an
\* unhandled error.
C10_NoUnhandledError ==
  printed_fetched > 0 => (pc # "error" /\ error = "none")

====
